---- MODULE Spec2Model ----
(***************************************************************************)
(* Eye-aperture tracker, posture tracker and the two-pass session of       *)
(* controller/eye_state.py, controller/posture_state.py and                *)
(* controller/process.py.                                                  *)
(*                                                                         *)
(* Units.  Frame rates are in hundredths of a frame per second (3000 is    *)
(* 30 fps), durations in hundredths of a second, eye-aperture ratios (EAR) *)
(* in hundredths, threshold ratios in hundredths, pixel measures in        *)
(* pixels, posture scores in millionths.  A median is carried as twice its *)
(* value, so that the mean of the two middle samples stays an integer.     *)
(***************************************************************************)
EXTENDS Integers, Sequences, FiniteSets, TLC

VARIABLES
    fps,              \* frame rate reported by the video source (centi-fps)
    mode,             \* eye_state.MODE
    eye_state,        \* the dict of init_eye_state
    eye_info,         \* info returned by the last process_eye_frame
    posture_state,    \* the dict of init_posture_state
    posture_info,     \* info of the last process_posture_frame / done of calibrate
    pc,               \* position of process_video_source (or the harness in use)
    video,            \* the frames of the source read so far, as frame kinds
    pos,              \* read position of cap
    frame_no,         \* frame_no of the annotation pass
    warmup_done,      \* local of process_video_source
    calib_done,       \* local of process_video_source
    stats,            \* stats of process_video_source
    labels_per_frame, \* labels_per_frame of process_video_source
    error,            \* message of the exception raised, "" when none
    ground_truth,     \* the ground-truth labels handed in for the evaluation
    response,         \* what compute_f1_scores or annotate_video answers
    mon               \* observer of the harnesses: counts and run lengths

vars == <<fps, mode, eye_state, eye_info, posture_state, posture_info, pc, video,
          pos, frame_no, warmup_done, calib_done, stats, labels_per_frame, error,
          ground_truth, response, mon>>

requestVars == <<ground_truth, response>>

sessionVars == <<pc, video, pos, frame_no, warmup_done, calib_done, stats,
                 labels_per_frame, error>>

Max2(a, b) == IF a >= b THEN a ELSE b

Min2(a, b) == IF a <= b THEN a ELSE b

Range(s) == {s[i] : i \in 1..Len(s)}

-----------------------------------------------------------------------------
(* eye_state.py: configuration *)

Modes == {"HYSTERESIS", "TIME", "COMBINED"}

MODE == "COMBINED"

HISTORY_SEC == 200

MIN_HISTORY_SEC == 50

CLOSE_TIME_SEC == 7

OPEN_TIME_SEC == 10

THRESH_RATIO == 70

CLOSE_THRESH_RATIO == 65

OPEN_THRESH_RATIO == 75

\* int(fps * sec) for fps in centi-fps and sec in hundredths of a second
FramesIn(f, sec) == (f * sec) \div 10000

\* the floor of the warm-up length in init_eye_state: max(10, ...)
MinHistoryFloor == 10

min_history_of(f) == Max2(MinHistoryFloor, FramesIn(f, MIN_HISTORY_SEC))

init_eye_state(fpsIn) ==
    LET f == Max2(fpsIn, 100)
    IN  [fps            |-> f,
         history_frames |-> Max2(1, FramesIn(f, HISTORY_SEC)),
         min_history    |-> min_history_of(f),
         consec_closed  |-> Max2(1, FramesIn(f, CLOSE_TIME_SEC)),
         consec_open    |-> Max2(1, FramesIn(f, OPEN_TIME_SEC)),
         ear_history    |-> << >>,
         blink_count    |-> 0,
         eyes_closed    |-> FALSE,
         closed_counter |-> 0,
         open_counter   |-> 0,
         warmed_up      |-> FALSE]

-----------------------------------------------------------------------------
(* Frames.  A frame is what the landmark engines return for it: whether a  *)
(* face and a pose were found, the EAR of the face landmarks, the pixel    *)
(* height of the face (chin to forehead), the pixel width of the shoulders,*)
(* the pixel distance of the outer eye corners and the vertical pixel      *)
(* offset of the nose tip from the shoulder midpoint.                      *)

Fr(face, pose, ear, face_h, sh_w, eye_w, nose_off) ==
    [face |-> face, pose |-> pose, ear |-> ear, face_h |-> face_h,
     sh_w |-> sh_w, eye_w |-> eye_w, nose_off |-> nose_off]

Frame(kind) ==
    CASE kind = "Upright"  -> Fr(TRUE,  TRUE,  30, 100, 200, 60,  -100)
      [] kind = "Dip"      -> Fr(TRUE,  TRUE,  10, 100, 200, 60,  -100)
      [] kind = "Band"     -> Fr(TRUE,  TRUE,  20, 100, 200, 60,  -100)
      [] kind = "Squint"   -> Fr(TRUE,  TRUE,  24, 100, 200, 60,  -100)
      [] kind = "Wide"     -> Fr(TRUE,  TRUE,  40, 100, 200, 60,  -100)
      [] kind = "Slouch"   -> Fr(TRUE,  TRUE,  30, 100, 200, 60,  -50)
      [] kind = "Lean"     -> Fr(TRUE,  TRUE,  30, 120, 220, 70,  -90)
      [] kind = "FaceOnly" -> Fr(TRUE,  FALSE, 30, 100, 0,   60,  0)
      [] kind = "Near"     -> Fr(TRUE,  FALSE, 30, 100, 0,   150, 0)
      [] kind = "Far"      -> Fr(TRUE,  TRUE,  30, 40,  90,  25,  -40)
      [] kind = "Tiny"     -> Fr(TRUE,  TRUE,  30, 60,  30,  10,  -60)
      [] kind = "NoFace"   -> Fr(FALSE, TRUE,  0,  0,   200, 0,   0)
      [] kind = "Empty"    -> Fr(FALSE, FALSE, 0,  0,   0,   0,   0)

-----------------------------------------------------------------------------
(* eye_state.py: process_eye_frame *)

\* deque(maxlen=n).append(x)
DequeAppend(h, x, n) ==
    IF Len(h) >= n THEN Tail(h) \o <<x>> ELSE Append(h, x)

\* the k-th smallest sample of h, 1 <= k <= Len(h)
KthSmallest(h, k) ==
    CHOOSE v \in Range(h) :
        /\ Cardinality({i \in 1..Len(h) : h[i] < v}) < k
        /\ Cardinality({i \in 1..Len(h) : h[i] <= v}) >= k

\* twice np.median(h), h not empty
Median2(h) ==
    LET n == Len(h)
    IN  IF n % 2 = 1 THEN 2 * KthSmallest(h, (n + 1) \div 2)
        ELSE KthSmallest(h, n \div 2) + KthSmallest(h, n \div 2 + 1)

\* ear < open_median * ratio and ear > open_median * ratio
Below(ear, med2, ratio) == ear * 200 < med2 * ratio

Above(ear, med2, ratio) == ear * 200 > med2 * ratio

\* the last known status is reported for a frame without a face
NoFaceInfo_LastStatus(st, m) ==
    [ear |-> 0, status |-> IF st.eyes_closed THEN "Closed" ELSE "Open",
     eyes_closed |-> st.eyes_closed,
     blink_count |-> st.blink_count, blink_increment |-> 0, mode |-> m,
     warmed_up |-> st.warmed_up, history_len |-> Len(st.ear_history)]

\* lines 56-66: info before the landmarks are read, returned as it is for a
\* frame without a face (lines 68-69)
NoFaceInfo(st, m) ==
    [ear |-> 0, status |-> "No face", eyes_closed |-> st.eyes_closed,
     blink_count |-> st.blink_count, blink_increment |-> 0, mode |-> m,
     warmed_up |-> st.warmed_up, history_len |-> Len(st.ear_history)]

\* lines 80-87: the warm-up phase
WarmUpAppend(st, ear) ==
    LET h == DequeAppend(st.ear_history, ear, st.history_frames)
    IN  [st EXCEPT !.ear_history = h,
                   !.warmed_up = (Len(h) >= st.min_history)]

\* a step's result: the state dict and info["blink_increment"]
Out(st, inc) == [state |-> st, inc |-> inc]

\* a blink is counted whenever the open run is long enough
TimeStep_CountEveryOpening(st, ear, med2) ==
    IF Below(ear, med2, THRESH_RATIO)
    THEN Out([st EXCEPT !.closed_counter = @ + 1,
                        !.open_counter = 0,
                        !.eyes_closed = IF st.closed_counter + 1 >= st.consec_closed
                                        THEN TRUE ELSE @], 0)
    ELSE IF st.open_counter + 1 >= st.consec_open
         THEN Out([st EXCEPT !.open_counter = @ + 1,
                             !.closed_counter = 0,
                             !.blink_count = @ + 1,
                             !.eyes_closed = FALSE,
                             !.ear_history = DequeAppend(@, ear, st.history_frames)],
                  1)
         ELSE Out([st EXCEPT !.open_counter = @ + 1,
                             !.closed_counter = 0], 0)

\* lines 94-109
TimeStep(st, ear, med2) ==
    IF Below(ear, med2, THRESH_RATIO)
    THEN Out([st EXCEPT !.closed_counter = @ + 1,
                        !.open_counter = 0,
                        !.eyes_closed = IF st.closed_counter + 1 >= st.consec_closed
                                        THEN TRUE ELSE @], 0)
    ELSE IF st.open_counter + 1 >= st.consec_open
         THEN Out([st EXCEPT !.open_counter = @ + 1,
                             !.closed_counter = 0,
                             !.blink_count = IF st.eyes_closed THEN @ + 1 ELSE @,
                             !.eyes_closed = FALSE,
                             !.ear_history = DequeAppend(@, ear, st.history_frames)],
                  IF st.eyes_closed THEN 1 ELSE 0)
         ELSE Out([st EXCEPT !.open_counter = @ + 1,
                             !.closed_counter = 0], 0)

\* the eyes close only after consec_closed frames under the close-threshold
HysteresisStep_Debounced(st, ear, med2) ==
    IF Below(ear, med2, CLOSE_THRESH_RATIO) /\ ~st.eyes_closed
    THEN Out([st EXCEPT !.closed_counter = @ + 1,
                        !.eyes_closed = IF st.closed_counter + 1 >= st.consec_closed
                                        THEN TRUE ELSE @], 0)
    ELSE IF Above(ear, med2, OPEN_THRESH_RATIO) /\ st.eyes_closed
    THEN Out([st EXCEPT !.eyes_closed = FALSE,
                        !.closed_counter = 0,
                        !.blink_count = @ + 1,
                        !.ear_history = DequeAppend(@, ear, st.history_frames)], 1)
    ELSE IF ~st.eyes_closed /\ Above(ear, med2, OPEN_THRESH_RATIO)
    THEN Out([st EXCEPT !.closed_counter = 0,
                        !.ear_history = DequeAppend(@, ear, st.history_frames)], 0)
    ELSE Out(st, 0)

\* lines 111-122
HysteresisStep(st, ear, med2) ==
    IF Below(ear, med2, CLOSE_THRESH_RATIO) /\ ~st.eyes_closed
    THEN Out([st EXCEPT !.eyes_closed = TRUE], 0)
    ELSE IF Above(ear, med2, OPEN_THRESH_RATIO) /\ st.eyes_closed
    THEN Out([st EXCEPT !.eyes_closed = FALSE,
                        !.blink_count = @ + 1,
                        !.ear_history = DequeAppend(@, ear, st.history_frames)], 1)
    ELSE IF ~st.eyes_closed /\ Above(ear, med2, OPEN_THRESH_RATIO)
    THEN Out([st EXCEPT !.ear_history = DequeAppend(@, ear, st.history_frames)], 0)
    ELSE Out(st, 0)

\* the close transition without its debounce
CombinedOpenStep_NoDebounce(st, ear, med2) ==
    IF Below(ear, med2, CLOSE_THRESH_RATIO)
    THEN Out([st EXCEPT !.closed_counter = @ + 1,
                        !.open_counter = 0,
                        !.eyes_closed = TRUE], 0)
    ELSE IF Above(ear, med2, OPEN_THRESH_RATIO)
    THEN Out([st EXCEPT !.closed_counter = 0,
                        !.ear_history = DequeAppend(@, ear, st.history_frames)], 0)
    ELSE Out([st EXCEPT !.closed_counter = 0], 0)

\* lines 127-136: eyes open
CombinedOpenStep(st, ear, med2) ==
    IF Below(ear, med2, CLOSE_THRESH_RATIO)
    THEN Out([st EXCEPT !.closed_counter = @ + 1,
                        !.open_counter = 0,
                        !.eyes_closed = IF st.closed_counter + 1 >= st.consec_closed
                                        THEN TRUE ELSE @], 0)
    ELSE IF Above(ear, med2, OPEN_THRESH_RATIO)
    THEN Out([st EXCEPT !.closed_counter = 0,
                        !.ear_history = DequeAppend(@, ear, st.history_frames)], 0)
    ELSE Out([st EXCEPT !.closed_counter = 0], 0)

\* every sample of the closed phase enters the history
CombinedClosedStep_Readmit(st, ear, med2) ==
    IF Above(ear, med2, OPEN_THRESH_RATIO)
    THEN IF st.open_counter + 1 >= st.consec_open
         THEN Out([st EXCEPT !.open_counter = @ + 1,
                             !.closed_counter = 0,
                             !.eyes_closed = FALSE,
                             !.blink_count = @ + 1,
                             !.ear_history = DequeAppend(@, ear, st.history_frames)], 1)
         ELSE Out([st EXCEPT !.open_counter = @ + 1,
                             !.closed_counter = 0,
                             !.ear_history = DequeAppend(@, ear, st.history_frames)], 0)
    ELSE Out([st EXCEPT !.open_counter = 0,
                        !.ear_history = DequeAppend(@, ear, st.history_frames)], 0)

\* lines 137-147: eyes closed
CombinedClosedStep(st, ear, med2) ==
    IF Above(ear, med2, OPEN_THRESH_RATIO)
    THEN IF st.open_counter + 1 >= st.consec_open
         THEN Out([st EXCEPT !.open_counter = @ + 1,
                             !.closed_counter = 0,
                             !.eyes_closed = FALSE,
                             !.blink_count = @ + 1,
                             !.ear_history = DequeAppend(@, ear, st.history_frames)], 1)
         ELSE Out([st EXCEPT !.open_counter = @ + 1,
                             !.closed_counter = 0], 0)
    ELSE Out([st EXCEPT !.open_counter = 0], 0)

\* lines 124-147
CombinedStep(st, ear, med2) ==
    IF ~st.eyes_closed THEN CombinedOpenStep(st, ear, med2)
    ELSE CombinedClosedStep(st, ear, med2)

\* lines 92-147: blink detection under the configured mode
DetectStep(st, ear, m) ==
    LET med2 == Median2(st.ear_history)
    IN  CASE m = "TIME"       -> TimeStep(st, ear, med2)
          [] m = "HYSTERESIS" -> HysteresisStep(st, ear, med2)
          [] m = "COMBINED"   -> CombinedStep(st, ear, med2)

\* process_eye_frame(frame, face_results, state): the new state and the info
process_eye_frame(fr, st, m) ==
    IF ~fr.face
    THEN [state |-> st, info |-> NoFaceInfo(st, m)]
    ELSE IF ~st.warmed_up
    THEN LET w == WarmUpAppend(st, fr.ear)
         IN  [state |-> w,
              info  |-> [NoFaceInfo(st, m) EXCEPT
                            !.ear = fr.ear,
                            !.status = IF w.warmed_up THEN "Warming Up... (Done)"
                                       ELSE "Warming Up..."]]
    ELSE LET d == DetectStep(st, fr.ear, m)
         IN  [state |-> d.state,
              info  |-> [NoFaceInfo(st, m) EXCEPT
                            !.ear = fr.ear,
                            !.blink_increment = d.inc,
                            !.eyes_closed = d.state.eyes_closed,
                            !.blink_count = d.state.blink_count,
                            !.status = IF d.state.eyes_closed THEN "Closed"
                                       ELSE "Open"]]

-----------------------------------------------------------------------------
(* posture_state.py: configuration *)

EMA_ALPHA == 30

CALIB_FRAMES_NEEDED == 60

\* the second test of line 78: len(state["calib_face"]) >= 10
CalibMinSamples == 10

MIN_FACE_PX == 60

MAX_FACE_PX == 800

MIN_SHOULDER_PX == 40

GOOD_CENTER_REL == -850

SCALE_FACTOR == 2500000

FACE_WEIGHT == 7

SHOULDER_WEIGHT == 3

DIST_MILD_MAX == 50

FACE_WIDTH_AT_50CM_PX == 120

\* the threshold of line 123: score >= 1.30
StraightMin == 1300000

\* Python's None for face_ref and shoulder_ref
None == -1

\* the smoothed score starts at 0
init_posture_state_Zero ==
    [face_ref       |-> None,
     shoulder_ref   |-> None,
     smooth_score   |-> 0,
     calibrated     |-> FALSE,
     calib_face     |-> << >>,
     calib_shoulder |-> << >>,
     calib_shared   |-> FALSE]

init_posture_state ==
    [face_ref       |-> None,
     shoulder_ref   |-> None,
     smooth_score   |-> 1250000,
     calibrated     |-> FALSE,
     calib_face     |-> << >>,
     calib_shoulder |-> << >>,
     calib_shared   |-> FALSE]   \* the two buffers are one list object

\* round(x, 3) of a score
Round3(x) == ((x + 500) \div 1000) * 1000

\* _estimate_distance in thousandths of a cm, None under 20 px.
\* REAL_FACE_WIDTH_CM * FOCAL_LENGTH_PX is FACE_WIDTH_AT_50CM_PX * 50.
estimate_distance(fr) ==
    IF fr.eye_w < 20 THEN None
    ELSE (FACE_WIDTH_AT_50CM_PX * 50 * 1000) \div fr.eye_w

\* the fixed score is an end of the raw-score range
status_from_distance_Full(d) ==
    IF d >= DIST_MILD_MAX * 1000
    THEN [status |-> "Straight", scr |-> SCALE_FACTOR]
    ELSE [status |-> "Hunched", scr |-> 0]

\* _status_from_distance: the status and the fixed score
status_from_distance(d) ==
    IF d >= DIST_MILD_MAX * 1000
    THEN [status |-> "Straight", scr |-> 2000000]
    ELSE [status |-> "Hunched", scr |-> 500000]

PlausibleFace(fr) == MIN_FACE_PX <= fr.face_h /\ fr.face_h <= MAX_FACE_PX

\* line 73: the sample is accepted into the buffers
Accepted(fr) == PlausibleFace(fr) /\ fr.sh_w >= MIN_SHOULDER_PX

\* lines 73-75: the two appends; after a calibration both names are bound to
\* the same list (line 82), which then receives both measurements
AppendSamples(st, fr) ==
    IF st.calib_shared
    THEN LET l == st.calib_face \o <<fr.face_h, fr.sh_w>>
         IN  [st EXCEPT !.calib_face = l, !.calib_shoulder = l]
    ELSE [st EXCEPT !.calib_face = Append(@, fr.face_h),
                    !.calib_shoulder = Append(@, fr.sh_w)]

\* only the face reference is stored
SetReferences_FaceOnly(st) ==
    [st EXCEPT !.face_ref = Median2(st.calib_face),
               !.calibrated = TRUE,
               !.calib_face = << >>,
               !.calib_shoulder = << >>,
               !.calib_shared = TRUE]

\* lines 79-82: both references, the flag and the cleared buffers
SetReferences(st) ==
    [st EXCEPT !.face_ref = Median2(st.calib_face),
               !.shoulder_ref = Median2(st.calib_shoulder),
               !.calibrated = TRUE,
               !.calib_face = << >>,
               !.calib_shoulder = << >>,
               !.calib_shared = TRUE]

\* done after the lower sample count of line 78
CalibrationDone_Min(n) == n >= CalibMinSamples

\* line 77: done = len(state["calib_face"]) >= CALIB_FRAMES_NEEDED
CalibrationDone(n) == n >= CALIB_FRAMES_NEEDED

\* calibrate_posture_frame: the new state and done
calibrate_posture_frame(fr, st) ==
    IF ~(fr.face /\ fr.pose)
    THEN [state |-> st, done |-> FALSE]
    ELSE LET s1   == IF Accepted(fr) THEN AppendSamples(st, fr) ELSE st
             done == CalibrationDone(Len(s1.calib_face))
         IN  IF done /\ Len(s1.calib_face) >= CalibMinSamples
             THEN [state |-> SetReferences(s1), done |-> done]
             ELSE [state |-> s1, done |-> done]

\* 2.5 * exp(-5 * k * 0.05) for k = 1..40
ExpTable ==
    <<1947002, 1516327, 1180916, 919699, 716262, 557825, 434435, 338338,
      263498, 205212, 159820, 124468, 96936, 75493, 58794, 45789,
      35661, 27772, 21629, 16845, 13119, 10217, 7957, 6197,
      4826, 3759, 2927, 2280, 1775, 1383, 1077, 839,
      653, 509, 396, 309, 240, 187, 146, 113>>

\* 2.5 * exp(5 * k * 0.05) for k = 1..4
ExpTableUp == <<3210064, 4121803, 5292500, 6795705>>

\* the raw score without the clip of line 119
RawScore_Unclipped(shifted) ==
    LET k == (shifted + 25) \div 50
        u == Min2((25 - shifted) \div 50, Len(ExpTableUp))
    IN  IF shifted <= 0
        THEN (IF u = 0 THEN SCALE_FACTOR ELSE ExpTableUp[u])
        ELSE IF k = 0 THEN SCALE_FACTOR
        ELSE IF k > Len(ExpTable) THEN 0 ELSE ExpTable[k]

\* lines 116-119: np.clip(SCALE_FACTOR * exp(-SENSITIVITY * shifted), 0,
\* SCALE_FACTOR), shifted in thousandths, read off ExpTable at the nearest
\* multiple of 0.05
RawScore(shifted) ==
    LET k == (shifted + 25) \div 50
    IN  IF shifted <= 0 \/ k = 0 THEN SCALE_FACTOR
        ELSE IF k > Len(ExpTable) THEN 0 ELSE ExpTable[k]

\* lines 113-117: ratio - GOOD_CENTER_REL in thousandths; the references are
\* twice the medians
ShiftedRatio(fr, st) ==
    LET ref20 == FACE_WEIGHT * st.face_ref + SHOULDER_WEIGHT * st.shoulder_ref
        cur10 == FACE_WEIGHT * fr.face_h + SHOULDER_WEIGHT * fr.sh_w
        ratio == IF cur10 > 0
                 THEN (1000 * fr.nose_off * ref20) \div (2 * fr.face_h * cur10)
                 ELSE (1000 * fr.nose_off) \div fr.face_h
    IN  ratio - GOOD_CENTER_REL

\* the step is applied twice
Ema_Twice(raw, smooth) ==
    LET once == (EMA_ALPHA * raw + (100 - EMA_ALPHA) * smooth + 50) \div 100
    IN  (EMA_ALPHA * raw + (100 - EMA_ALPHA) * once + 50) \div 100

\* lines 120, 138, 150: EMA_ALPHA * raw + (1 - EMA_ALPHA) * smooth_score
Ema(raw, smooth) == (EMA_ALPHA * raw + (100 - EMA_ALPHA) * smooth + 50) \div 100

\* another default status
PostureInfo0_Unknown(st) ==
    [status |-> "Unknown", score |-> 0, smooth_score |-> Round3(st.smooth_score),
     calibrated |-> st.calibrated]

\* lines 88-94: the info before any landmark is read
PostureInfo0(st) ==
    [status |-> "No face", score |-> 0, smooth_score |-> Round3(st.smooth_score),
     calibrated |-> st.calibrated]

\* the status is taken from the raw score of the frame
PrimaryScore_RawStatus(fr, st) ==
    LET raw == RawScore(ShiftedRatio(fr, st))
        sm  == Ema(raw, st.smooth_score)
    IN  [state |-> [st EXCEPT !.smooth_score = sm],
         info  |-> [PostureInfo0(st) EXCEPT
                       !.status = IF raw >= StraightMin THEN "Straight" ELSE "Hunched",
                       !.score = Round3(sm),
                       !.smooth_score = Round3(sm)]]

\* lines 112-133: face and shoulders against the references
PrimaryScore(fr, st) ==
    LET sm == Ema(RawScore(ShiftedRatio(fr, st)), st.smooth_score)
    IN  [state |-> [st EXCEPT !.smooth_score = sm],
         info  |-> [PostureInfo0(st) EXCEPT
                       !.status = IF sm >= StraightMin THEN "Straight" ELSE "Hunched",
                       !.score = Round3(sm),
                       !.smooth_score = Round3(sm)]]

\* lines 135-144 and 147-155: the distance estimate d is not None
FallbackScore(d, st) ==
    LET f  == status_from_distance(d)
        sm == Ema(f.scr, st.smooth_score)
    IN  [state |-> [st EXCEPT !.smooth_score = sm],
         info  |-> [PostureInfo0(st) EXCEPT
                       !.status = f.status,
                       !.score = f.scr,
                       !.smooth_score = Round3(sm)]]

\* process_posture_frame: the state (smooth_score is updated in place) and info
process_posture_frame(fr, st) ==
    LET d == estimate_distance(fr)
    IN  IF ~fr.face
        THEN [state |-> st, info |-> PostureInfo0(st)]
        ELSE IF fr.pose /\ PlausibleFace(fr) /\ fr.sh_w >= MIN_SHOULDER_PX
                /\ st.calibrated
        THEN PrimaryScore(fr, st)
        ELSE IF PlausibleFace(fr)
        THEN IF d # None
             THEN FallbackScore(d, st)
             ELSE [state |-> st,
                   info  |-> [PostureInfo0(st) EXCEPT !.status = "Face too small"]]
        ELSE [state |-> st,
              info  |-> [PostureInfo0(st) EXCEPT !.status = "Too close/far"]]

-----------------------------------------------------------------------------
(* Values of the variables a specification does not use *)

Unset == [unset |-> TRUE]

NoStats == [total_frames |-> 0]

IdleSession ==
    /\ video = << >>
    /\ pos = 0
    /\ frame_no = 0
    /\ warmup_done = FALSE
    /\ calib_done = FALSE
    /\ stats = NoStats
    /\ labels_per_frame = << >>
    /\ error = ""
    /\ ground_truth = Unset
    /\ response = Unset

-----------------------------------------------------------------------------
(* init_eye_state over the frame rates: the input is drawn, then the       *)
(* constructor is applied.                                                 *)

MaxFps == 24000

ConstructInit ==
    /\ fps \in 1..MaxFps
    /\ mode = MODE
    /\ pc = "construct"
    /\ eye_state = Unset
    /\ eye_info = Unset
    /\ posture_state = Unset
    /\ posture_info = Unset
    /\ mon = Unset
    /\ IdleSession

Construct ==
    /\ pc = "construct"
    /\ eye_state' = init_eye_state(fps)
    /\ pc' = "constructed"
    /\ UNCHANGED <<fps, mode, eye_info, posture_state, posture_info, video, pos,
                   frame_no, warmup_done, calib_done, stats, labels_per_frame,
                   error, mon>>
    /\ UNCHANGED requestVars

ConstructNext == Construct

SpecConstruct == ConstructInit /\ [][ConstructNext]_vars

-----------------------------------------------------------------------------
(* The eye tracker on its own: a freshly constructed tracker is fed frames *)
(* one at a time.  mon observes the run: the kind of the last frame, the   *)
(* number of frames with a face fed so far, the number of blink-detection  *)
(* steps, and the dip/rise of the ratio against the thresholds in force at *)
(* each step.                                                              *)

EyeFps == {100, 500, 3000}

WarmKinds == {"Upright", "NoFace"}

DetectKinds == {"Upright", "Dip", "Band", "Squint", "Wide", "NoFace"}

MaxDetect == 7

EyeMon0 ==
    [kind |-> "none", fed |-> 0, det |-> 0, sc |-> "none", dipLen |-> 0,
     riseLen |-> 0, b0 |-> 0, incs |-> 0, closedSeen |-> FALSE]

\* the observer after a blink-detection step on ratio ear: st is the state
\* before the step, o the result of DetectStep
EyeMonDetect(m, st, ear, o) ==
    LET med2   == Median2(st.ear_history)
        below  == Below(ear, med2, CLOSE_THRESH_RATIO)
        above  == Above(ear, med2, OPEN_THRESH_RATIO)
        cap    == st.consec_closed + st.consec_open
        start  == [m EXCEPT !.sc = "dip", !.dipLen = 1, !.riseLen = 0,
                            !.b0 = st.blink_count, !.incs = o.inc,
                            !.closedSeen = o.state.eyes_closed]
        more   == [m EXCEPT !.incs = @ + o.inc,
                            !.closedSeen = @ \/ o.state.eyes_closed]
        stop   == [m EXCEPT !.sc = "none", !.dipLen = 0, !.riseLen = 0,
                            !.b0 = 0, !.incs = 0, !.closedSeen = FALSE]
    IN  CASE m.sc = "dip" /\ below -> [more EXCEPT !.dipLen = Min2(@ + 1, cap)]
          [] m.sc = "dip" /\ above -> [more EXCEPT !.sc = "rise", !.riseLen = 1]
          [] m.sc = "rise" /\ above -> [more EXCEPT !.riseLen = Min2(@ + 1, cap)]
          [] m.sc # "dip" /\ below /\ ~st.eyes_closed -> start
          [] OTHER -> stop

EyeMonStep(m, kind, st, r) ==
    LET fr == Frame(kind)
        m1 == [m EXCEPT !.kind = kind,
                        !.fed = IF fr.face THEN Min2(@ + 1, st.min_history + 1) ELSE @,
                        !.det = IF st.warmed_up THEN @ + 1 ELSE @]
    IN  IF fr.face /\ st.warmed_up
        THEN EyeMonDetect(m1, st, fr.ear, [state |-> r.state, inc |-> r.info.blink_increment])
        ELSE m1

EyeInit ==
    /\ fps \in EyeFps
    /\ mode \in Modes
    /\ pc = "eye"
    /\ eye_state = init_eye_state(fps)
    /\ eye_info = NoFaceInfo(eye_state, mode)
    /\ posture_state = Unset
    /\ posture_info = Unset
    /\ mon = EyeMon0
    /\ IdleSession

EyeStep ==
    /\ pc = "eye"
    /\ mon.det < MaxDetect
    /\ \E kind \in (IF eye_state.warmed_up THEN DetectKinds ELSE WarmKinds) :
          LET r == process_eye_frame(Frame(kind), eye_state, mode)
          IN  /\ eye_state' = r.state
              /\ eye_info' = r.info
              /\ mon' = EyeMonStep(mon, kind, eye_state, r)
    /\ UNCHANGED <<fps, mode, posture_state, posture_info, pc>>
    /\ UNCHANGED sessionVars
    /\ UNCHANGED requestVars

EyeNext == EyeStep

SpecEye == EyeInit /\ [][EyeNext]_vars

-----------------------------------------------------------------------------
(* The posture tracker on its own: calibrate and score calls in any order  *)
(* on a freshly constructed tracker.  The subject of the accepted samples  *)
(* sits upright and may lean in once, for good; frames that calibration    *)
(* skips may come at any time.  calib_done holds the value the last        *)
(* calibrate call returned.                                                *)

CalibKinds == {"Upright", "Lean", "Far", "NoFace"}

ScoreKinds == {"Upright", "Slouch", "FaceOnly", "Near", "Far", "Tiny", "NoFace"}

\* samples accepted by calibrate calls on a calibrated tracker
MaxRecal == 31

\* score calls
MaxScoreCalls == 2

PostureMon0 ==
    [op |-> "none", leaned |-> FALSE, recal |-> 0, scores |-> 0, path |-> "none"]

\* the branch of process_posture_frame that a frame takes: the score against
\* the references (lines 112-133), the score from the distance (lines 135-144,
\* 147-155) or a status without a score (lines 97, 157, 159)
ScorePath(fr, st) ==
    IF ~fr.face THEN "diagnostic"
    ELSE IF fr.pose /\ PlausibleFace(fr) /\ fr.sh_w >= MIN_SHOULDER_PX
            /\ st.calibrated
    THEN "primary"
    ELSE IF PlausibleFace(fr) /\ estimate_distance(fr) # None THEN "fallback"
    ELSE "diagnostic"

PostureInit ==
    /\ fps = 3000
    /\ mode = MODE
    /\ pc = "posture"
    /\ eye_state = Unset
    /\ eye_info = Unset
    /\ posture_state = init_posture_state
    /\ posture_info = PostureInfo0(init_posture_state)
    /\ mon = PostureMon0
    /\ IdleSession

PostureCalibrate ==
    /\ pc = "posture"
    /\ mon.recal < MaxRecal
    /\ \E kind \in CalibKinds :
          LET r == calibrate_posture_frame(Frame(kind), posture_state)
          IN  /\ (kind = "Upright" => ~mon.leaned)
              /\ posture_state' = r.state
              /\ calib_done' = r.done
              /\ mon' = [mon EXCEPT !.op = "calibrate",
                                    !.leaned = @ \/ kind = "Lean",
                                    !.recal = IF posture_state.calibrated
                                                 /\ Accepted(Frame(kind))
                                              THEN @ + 1 ELSE @]
    /\ UNCHANGED <<fps, mode, eye_state, eye_info, posture_info, pc, video, pos,
                   frame_no, warmup_done, stats, labels_per_frame, error>>
    /\ UNCHANGED requestVars

PostureScore ==
    /\ pc = "posture"
    /\ mon.scores < MaxScoreCalls
    /\ \E kind \in ScoreKinds :
          LET r == process_posture_frame(Frame(kind), posture_state)
          IN  /\ posture_state' = r.state
              /\ posture_info' = r.info
              /\ mon' = [mon EXCEPT !.op = "score", !.scores = @ + 1,
                                    !.path = ScorePath(Frame(kind), posture_state)]
    /\ UNCHANGED <<fps, mode, eye_state, eye_info, pc>>
    /\ UNCHANGED sessionVars
    /\ UNCHANGED requestVars

PostureNext == PostureCalibrate \/ PostureScore

SpecPosture == PostureInit /\ [][PostureNext]_vars

-----------------------------------------------------------------------------
(* process.py: process_video_source.  The source holds a fixed run of      *)
(* frames that both passes read; the model fixes each frame when it is     *)
(* first read and replays it in the second pass.  The footage is upright,  *)
(* eyes open, except in the frames of EventFrames and after TailFrom.      *)

SessionFps == {0, 400, 12200}

MaxFrames == 62

EventFrames == 16..18

EventKinds == {"Upright", "Dip", "NoFace", "Far"}

TailFrom == 61

TailKinds == {"Upright", "Slouch", "FaceOnly", "Near", "Far", "Tiny", "NoFace"}

\* the kinds the i-th frame of the source may have, i from 1
KindsAt(i) ==
    IF i \in EventFrames THEN EventKinds
    ELSE IF i >= TailFrom THEN TailKinds
    ELSE {"Upright"}

\* the frames of the steady footage: upright, eyes open, from end to end
SteadyFrames == 90

\* the kinds the next frame of the source may have, and the frames the source
\* has at most, for the footage of the session
FrameKinds(i) == IF mon.footage = "steady" THEN {"Upright"} ELSE KindsAt(i)

SourceFrames == IF mon.footage = "steady" THEN SteadyFrames ELSE MaxFrames

\* line 38: cap.get(cv2.CAP_PROP_FPS) or 30.0
SourceFps(f) == IF f = 0 THEN 3000 ELSE f

\* str(frame_no): the decimal digits
RECURSIVE Str(_)
Str(n) == IF n < 10 THEN <<n>> ELSE Str(n \div 10) \o <<n % 10>>

\* the read position is kept
RewindTo_Stay(p) == p

\* line 116: cap.set(cv2.CAP_PROP_POS_FRAMES, 0) on the reopened source
RewindTo(p) == 0

WarmupFailed == "Eye warm-up failed, insufficient face data"

CalibFailed == "Posture calibration failed, could not detect reference pose"

Stats0 ==
    [total_frames |-> 0, blink_count |-> 0, posture_scores |-> << >>,
     calibrated |-> FALSE, warmed_up |-> FALSE, has_summary |-> FALSE,
     avg_posture_score |-> 0, min_posture_score |-> 0, max_posture_score |-> 0]

\* the first score is taken for the least
SeqMin_First(q) == Head(q)

RECURSIVE SeqSum(_)
SeqSum(q) == IF q = << >> THEN 0 ELSE Head(q) + SeqSum(Tail(q))

SeqMin(q) == CHOOSE x \in Range(q) : \A y \in Range(q) : x <= y

SeqMax(q) == CHOOSE x \in Range(q) : \A y \in Range(q) : x >= y

\* lines 166-174: the final statistics
FinalStats(st, n) ==
    IF st.posture_scores # << >>
    THEN [st EXCEPT !.total_frames = n,
                    !.has_summary = TRUE,
                    !.avg_posture_score =
                        Round3(SeqSum(st.posture_scores) \div Len(st.posture_scores)),
                    !.min_posture_score = Round3(SeqMin(st.posture_scores)),
                    !.max_posture_score = Round3(SeqMax(st.posture_scores))]
    ELSE [st EXCEPT !.total_frames = n]

\* lines 176-180
result_json ==
    [total_frames |-> stats.total_frames, labels_per_frame |-> labels_per_frame]

SessionInit ==
    /\ fps \in SessionFps
    /\ mode = MODE
    /\ eye_state = init_eye_state(SourceFps(fps))
    /\ eye_info = Unset
    /\ posture_state = init_posture_state
    /\ posture_info = Unset
    /\ pc = "SETUP"
    /\ video = << >>
    /\ pos = 0
    /\ frame_no = 0
    /\ warmup_done = FALSE
    /\ calib_done = FALSE
    /\ stats = Stats0
    /\ labels_per_frame = << >>
    /\ error = ""
    /\ ground_truth = Unset
    /\ response = Unset
    /\ mon = [setup_frames |-> 0, footage |-> "events", incs |-> 0]

\* lines 65-94: one iteration of the warm-up and calibration loop
SetupFrame ==
    /\ pc = "SETUP"
    /\ ~(warmup_done /\ calib_done)
    /\ Len(video) < SourceFrames
    /\ \E kind \in FrameKinds(Len(video) + 1) :
          LET e == process_eye_frame(Frame(kind), eye_state, mode)
              c == calibrate_posture_frame(Frame(kind), posture_state)
          IN  /\ video' = Append(video, kind)
              /\ pos' = pos + 1
              /\ eye_state' = e.state
              /\ warmup_done' = e.state.warmed_up
              /\ posture_state' = c.state
              /\ calib_done' = c.done
              /\ stats' = [stats EXCEPT !.total_frames = @ + 1]
    /\ UNCHANGED <<fps, mode, eye_info, posture_info, pc, frame_no,
                   labels_per_frame, error, mon>>
    /\ UNCHANGED requestVars

\* lines 65-68 and 96-110: the loop ends, by its condition or because the
\* source has no further frame; the two failures are raised from here
LeaveSetup ==
    /\ pc = "SETUP"
    /\ stats' = [stats EXCEPT !.warmed_up = warmup_done, !.calibrated = calib_done]
    /\ mon' = [mon EXCEPT !.setup_frames = Len(video)]
    /\ IF ~warmup_done
       THEN pc' = "FAILED" /\ error' = WarmupFailed
       ELSE IF ~calib_done
       THEN pc' = "FAILED" /\ error' = CalibFailed
       ELSE pc' = "READY" /\ error' = error
    /\ UNCHANGED <<fps, mode, eye_state, eye_info, posture_state, posture_info,
                   video, pos, frame_no, warmup_done, calib_done, labels_per_frame>>
    /\ UNCHANGED requestVars

\* the reopening of the source raises
Rewind_Raise ==
    /\ pc = "READY"
    /\ pc' = "FAILED"
    /\ error' = "Cannot open video source"
    /\ UNCHANGED <<fps, mode, eye_state, eye_info, posture_state, posture_info,
                   video, pos, frame_no, warmup_done, calib_done, stats,
                   labels_per_frame, mon>>
    /\ UNCHANGED requestVars

\* lines 112-119: the source is reopened at its first frame
Rewind ==
    /\ pc = "READY"
    /\ pos' = RewindTo(pos)
    /\ frame_no' = 0
    /\ pc' = "CLASSIFYING"
    /\ UNCHANGED <<fps, mode, eye_state, eye_info, posture_state, posture_info,
                   video, warmup_done, calib_done, stats, labels_per_frame, error,
                   mon>>
    /\ UNCHANGED requestVars

\* lines 129-140, 163: the frame of kind kind is annotated
Annotate(kind) ==
    LET e == process_eye_frame(Frame(kind), eye_state, mode)
        p == process_posture_frame(Frame(kind), posture_state)
    IN  /\ eye_state' = e.state
        /\ eye_info' = e.info
        /\ posture_state' = p.state
        /\ posture_info' = p.info
        /\ labels_per_frame' =
              (Str(frame_no) :> [eye_state |-> e.info.status,
                                 posture   |-> p.info.status]) @@ labels_per_frame
        /\ stats' = [stats EXCEPT !.blink_count = e.info.blink_count,
                                  !.posture_scores = Append(@, p.info.smooth_score)]
        /\ frame_no' = frame_no + 1
        /\ pos' = pos + 1
        /\ mon' = [mon EXCEPT !.incs = @ + e.info.blink_increment]

\* lines 120-164: one iteration of the annotation loop, on a frame the first
\* pass has read or on the next frame of the source
ClassifyFrame ==
    /\ pc = "CLASSIFYING"
    /\ \/ /\ pos < Len(video)
          /\ Annotate(video[pos + 1])
          /\ video' = video
       \/ /\ pos = Len(video)
          /\ Len(video) < SourceFrames
          /\ \E kind \in FrameKinds(Len(video) + 1) :
                /\ Annotate(kind)
                /\ video' = Append(video, kind)
    /\ UNCHANGED <<fps, mode, pc, warmup_done, calib_done, error>>
    /\ UNCHANGED requestVars

\* lines 121-123 and 166-188: the source is exhausted
Finish ==
    /\ pc = "CLASSIFYING"
    /\ pos = Len(video)
    /\ stats' = FinalStats(stats, frame_no)
    /\ pc' = "DONE"
    /\ UNCHANGED <<fps, mode, eye_state, eye_info, posture_state, posture_info,
                   video, pos, frame_no, warmup_done, calib_done,
                   labels_per_frame, error, mon>>
    /\ UNCHANGED requestVars

Next == SetupFrame \/ LeaveSetup \/ Rewind \/ ClassifyFrame \/ Finish

Spec == SessionInit /\ [][Next]_vars

\* the session over steady footage from a source that reports 30 fps
SteadyInit ==
    /\ fps = 3000
    /\ mode = MODE
    /\ eye_state = init_eye_state(SourceFps(fps))
    /\ eye_info = Unset
    /\ posture_state = init_posture_state
    /\ posture_info = Unset
    /\ pc = "SETUP"
    /\ video = << >>
    /\ pos = 0
    /\ frame_no = 0
    /\ warmup_done = FALSE
    /\ calib_done = FALSE
    /\ stats = Stats0
    /\ labels_per_frame = << >>
    /\ error = ""
    /\ ground_truth = Unset
    /\ response = Unset
    /\ mon = [setup_frames |-> 0, footage |-> "steady", incs |-> 0]

SpecSteady == SteadyInit /\ [][Next]_vars

-----------------------------------------------------------------------------
(* evaluation.py: compute_f1_scores.  A label mapping is a function from   *)
(* frame keys to labels; a key is a string, held as the sequence of its    *)
(* characters: the digits 0..9 and, as 10, a character that is no digit.   *)
(* The values of the two scores come from sklearn's f1_score and are not   *)
(* modelled: a computed score is Computed.                                 *)

Letter == 10

\* int(key) succeeds
IsInt(key) == key # << >> /\ \A i \in 1..Len(key) : key[i] \in 0..9

KeyPool == {Str(0), Str(1), Str(2), <<0, 1>>, <<Letter>>}

ALabel == [eye_state |-> "Open", posture |-> "Straight"]

\* the label mappings over the keys of KeyPool
Mappings == {[k \in K |-> ALabel] : K \in SUBSET KeyPool}

NoScore == "None"

Computed == "computed"

Returned(eye, posture) ==
    [raised |-> "", eye_f1 |-> eye, posture_f1 |-> posture]

Raised(exception) ==
    [raised |-> exception, eye_f1 |-> NoScore, posture_f1 |-> NoScore]

\* compute_f1_scores comparing only the sizes of the two mappings
compute_f1_scores_CountOnly(gt, generated) ==
    IF DOMAIN gt = {}
    THEN Returned(NoScore, NoScore)
    ELSE IF \E k \in DOMAIN gt \cup DOMAIN generated : ~IsInt(k)
    THEN Raised("ValueError: invalid literal for int()")
    ELSE IF Cardinality(DOMAIN gt) # Cardinality(DOMAIN generated)
    THEN Raised("ValueError: Frame count mismatch")
    ELSE Returned(Computed, Computed)

\* compute_f1_scores(ground_truth, generated): what it returns or raises
compute_f1_scores(gt, generated) ==
    IF DOMAIN gt = {}
    THEN Returned(NoScore, NoScore)
    ELSE IF \E k \in DOMAIN gt \cup DOMAIN generated : ~IsInt(k)
    THEN Raised("ValueError: invalid literal for int()")
    ELSE IF Cardinality(DOMAIN gt) # Cardinality(DOMAIN generated)
    THEN Raised("ValueError: Frame count mismatch")
    ELSE IF \E f \in DOMAIN gt : f \notin DOMAIN generated
    THEN Raised("ValueError: Missing generated labels")
    ELSE Returned(Computed, Computed)

EvaluationInit ==
    /\ fps = 3000
    /\ mode = MODE
    /\ pc = "evaluate"
    /\ eye_state = Unset
    /\ eye_info = Unset
    /\ posture_state = Unset
    /\ posture_info = Unset
    /\ mon = Unset
    /\ video = << >>
    /\ pos = 0
    /\ frame_no = 0
    /\ warmup_done = FALSE
    /\ calib_done = FALSE
    /\ stats = NoStats
    /\ error = ""
    /\ ground_truth \in Mappings
    /\ labels_per_frame \in Mappings
    /\ response = Unset

Evaluate ==
    /\ pc = "evaluate"
    /\ response' = compute_f1_scores(ground_truth, labels_per_frame)
    /\ pc' = "evaluated"
    /\ UNCHANGED <<fps, mode, eye_state, eye_info, posture_state, posture_info,
                   video, pos, frame_no, warmup_done, calib_done, stats,
                   labels_per_frame, error, ground_truth, mon>>

EvaluationNext == Evaluate

SpecEvaluation == EvaluationInit /\ [][EvaluationNext]_vars

-----------------------------------------------------------------------------
(* annotate_route.py: annotate_video from the call of process_video_source *)
(* on (lines 103-142).  The session has run: it raised (error) or returned *)
(* result_json with the labels of its N frames, N at least the number of   *)
(* frames calibration needs.  ground_truth is ground_truth_data: whether a *)
(* ground-truth file came with the request, whether its JSON object has    *)
(* the key "labels_per_frame", and that entry.                             *)

\* frames of the source beyond those calibration needs
MaxExtraFrames == 2

RouteFrames == CALIB_FRAMES_NEEDED..(CALIB_FRAMES_NEEDED + MaxExtraFrames)

\* labels_per_frame of a session over n frames
GeneratedLabels(n) == [k \in {Str(i) : i \in 0..(n - 1)} |-> ALabel]

GroundTruthData ==
    {[supplied |-> FALSE, has_labels |-> FALSE, labels_per_frame |-> << >>],
     [supplied |-> TRUE, has_labels |-> FALSE, labels_per_frame |-> << >>]}
        \cup {[supplied |-> TRUE, has_labels |-> TRUE, labels_per_frame |-> g] :
                  g \in Mappings \cup {GeneratedLabels(n) : n \in RouteFrames}}

RouteInit ==
    /\ fps = 3000
    /\ mode = MODE
    /\ pc = "request"
    /\ eye_state = Unset
    /\ eye_info = Unset
    /\ posture_state = Unset
    /\ posture_info = Unset
    /\ mon = Unset
    /\ video = << >>
    /\ pos = 0
    /\ frame_no = 0
    /\ warmup_done = FALSE
    /\ calib_done = FALSE
    /\ \/ /\ error \in {WarmupFailed, CalibFailed}
          /\ labels_per_frame = << >>
          /\ stats = NoStats
       \/ /\ error = ""
          /\ \E n \in RouteFrames :
                /\ labels_per_frame = GeneratedLabels(n)
                /\ stats = [total_frames |-> n]
    /\ ground_truth \in GroundTruthData
    /\ response = Unset

\* lines 112-138: the response of a session that returned
FinalResponse(gtd, generated, total) ==
    LET base == [status |-> 200, detail |-> "", total_frames |-> total,
                 labels_per_frame |-> generated, has_scores |-> FALSE,
                 eye_f1 |-> NoScore, posture_f1 |-> NoScore, log |-> ""]
        f1   == compute_f1_scores(gtd.labels_per_frame, generated)
    IN  IF gtd.supplied /\ gtd.has_labels
        THEN IF f1.raised = ""
             THEN [base EXCEPT !.has_scores = TRUE, !.eye_f1 = f1.eye_f1,
                               !.posture_f1 = f1.posture_f1]
             ELSE [base EXCEPT !.log = f1.raised]
        ELSE base

\* lines 140-142: the session raised
ErrorResponse(message) ==
    [status |-> 500, detail |-> message, total_frames |-> 0,
     labels_per_frame |-> << >>, has_scores |-> FALSE, eye_f1 |-> NoScore,
     posture_f1 |-> NoScore, log |-> ""]

\* lines 103-142
AnnotateVideo ==
    /\ pc = "request"
    /\ response' = IF error # "" THEN ErrorResponse(error)
                   ELSE FinalResponse(ground_truth, labels_per_frame,
                                      stats.total_frames)
    /\ pc' = "responded"
    /\ UNCHANGED <<fps, mode, eye_state, eye_info, posture_state, posture_info,
                   video, pos, frame_no, warmup_done, calib_done, stats,
                   labels_per_frame, error, ground_truth, mon>>

RouteNext == AnnotateVideo

SpecRoute == RouteInit /\ [][RouteNext]_vars

-----------------------------------------------------------------------------
(* Claims about the eye tracker *)

\* C1: in COMBINED mode, from a warmed-up tracker with eyes open, a run of
\* ratios below the close-threshold of at least consec_closed frames followed
\* by a run above the open-threshold of at least consec_open frames raises
\* blink_count by exactly 1 and reports blink_increment = 1 on exactly one
\* step; while the dip is shorter than consec_closed, nothing is counted and
\* eyes_closed is never set.  (Runs are of the frames that carry a ratio.)
C1_CombinedBlink ==
    (pc = "eye" /\ mode = "COMBINED") =>
        /\ (/\ mon.sc = "rise"
            /\ mon.dipLen >= eye_state.consec_closed
            /\ mon.riseLen >= eye_state.consec_open)
              => (eye_state.blink_count = mon.b0 + 1 /\ mon.incs = 1)
        /\ (mon.sc \in {"dip", "rise"} /\ mon.dipLen < eye_state.consec_closed)
              => (/\ mon.incs = 0
                  /\ ~mon.closedSeen
                  /\ ~eye_state.eyes_closed
                  /\ eye_state.blink_count = mon.b0)

\* a debounced blink has completed: two or more frames closed it, two or more
\* reopened it, and it was counted
C1_Witness ==
    /\ pc = "eye"
    /\ mode = "COMBINED"
    /\ eye_state.consec_closed >= 2
    /\ eye_state.consec_open >= 2
    /\ mon.sc = "rise"
    /\ mon.dipLen >= eye_state.consec_closed
    /\ mon.riseLen > eye_state.consec_open
    /\ eye_state.blink_count = mon.b0 + 1
    /\ eye_info.blink_increment = 0

\* C2: for every fps >= 1 a fresh tracker is not warmed up after fewer than
\* min_history frames with a face, is warmed up from the min_history-th on,
\* and warmed_up never goes back to false.
C2_WarmUpAtMinHistory ==
    /\ [](pc = "eye" =>
            /\ (mon.fed < eye_state.min_history => ~eye_state.warmed_up)
            /\ (mon.fed >= eye_state.min_history => eye_state.warmed_up))
    /\ [][pc = "eye" /\ eye_state.warmed_up => eye_state'.warmed_up]_vars

\* C3: for every fps >= 1 the frame counts derived by init_eye_state are all
\* at least 1 and min_history <= history_frames.
C3_DerivedFrameCounts ==
    (pc = "constructed" /\ fps >= 100) =>
        /\ eye_state.history_frames >= 1
        /\ eye_state.min_history >= 1
        /\ eye_state.consec_closed >= 1
        /\ eye_state.consec_open >= 1
        /\ eye_state.min_history <= eye_state.history_frames

-----------------------------------------------------------------------------
(* Claims about the posture tracker *)

\* C4: in every reachable state of the posture tracker, calibrated is true
\* exactly when face_ref and shoulder_ref are both set, and neither reference
\* is ever set without the other.
C4_CalibratedIffReferences ==
    pc = "posture" =>
        /\ posture_state.calibrated
             <=> (posture_state.face_ref # None /\ posture_state.shoulder_ref # None)
        /\ posture_state.face_ref = None <=> posture_state.shoulder_ref = None

\* a calibrated tracker that has since been scored and calibrated again
C4_Witness ==
    /\ pc = "posture"
    /\ posture_state.calibrated
    /\ posture_state.face_ref # None
    /\ posture_state.shoulder_ref # None
    /\ mon.scores > 0
    /\ mon.recal > 0

FaceHeights == {Frame(k).face_h : k \in {k \in CalibKinds : Accepted(Frame(k))}}

ShoulderWidths == {Frame(k).sh_w : k \in {k \in CalibKinds : Accepted(Frame(k))}}

\* C5: once calibration has succeeded, a further calibrate call leaves both
\* sample buffers empty and both references unchanged, and the face buffer
\* holds only face heights, the shoulder buffer only shoulder widths.
C5_NoSamplesAfterCalibration ==
    /\ [](pc = "posture" =>
            /\ Range(posture_state.calib_face) \subseteq FaceHeights
            /\ Range(posture_state.calib_shoulder) \subseteq ShoulderWidths)
    /\ [][(pc = "posture" /\ posture_state.calibrated /\ mon'.op = "calibrate") =>
            /\ posture_state'.calib_face = << >>
            /\ posture_state'.calib_shoulder = << >>
            /\ posture_state'.face_ref = posture_state.face_ref
            /\ posture_state'.shoulder_ref = posture_state.shoulder_ref]_vars

-----------------------------------------------------------------------------
(* Claims about the session *)

\* the frames of the setup pass that calibration accepted as samples
AcceptedInSetup ==
    Cardinality({i \in 1..mon.setup_frames :
                    LET f == Frame(video[i]) IN f.face /\ f.pose /\ Accepted(f)})

\* C6: when the setup pass has accepted fewer than CALIB_FRAMES_NEEDED frames
\* as calibration samples by the end of the source, the posture tracker is
\* not calibrated, the session has failed and no label has been emitted.
C6_TooFewSamplesFails ==
    (pc # "SETUP" /\ AcceptedInSetup < CALIB_FRAMES_NEEDED) =>
        /\ pc = "FAILED"
        /\ ~posture_state.calibrated
        /\ DOMAIN labels_per_frame = {}

\* a source of at least 60 frames, warmed up, that fell one sample short
C6_Witness ==
    /\ pc = "FAILED"
    /\ error = CalibFailed
    /\ Len(video) >= CALIB_FRAMES_NEEDED
    /\ AcceptedInSetup = CALIB_FRAMES_NEEDED - 1

\* C7: setup is over as soon as the eye tracker is warmed up and the posture
\* tracker is calibrated; the session fails only with the source exhausted
\* while the eye tracker is not warmed up (warm-up failure) or the posture
\* tracker is not calibrated (calibration failure); and the calibrated flag
\* the session reports is the tracker's.
C7_SetupEndsWhenBothReady ==
    /\ (pc = "SETUP" /\ eye_state.warmed_up /\ posture_state.calibrated)
          => (warmup_done /\ calib_done)
    /\ pc = "FAILED"
          => \/ error = WarmupFailed /\ ~eye_state.warmed_up
             \/ error = CalibFailed /\ ~posture_state.calibrated
    /\ pc # "SETUP" => stats.calibrated = posture_state.calibrated

\* C8: no blink logic runs during setup: when the annotation pass is about
\* to process frame 0, blink_count is 0 and eyes_closed, closed_counter and
\* open_counter have their initial values.
C8_NoBlinkLogicInSetup ==
    (pc = "CLASSIFYING" /\ frame_no = 0) =>
        /\ eye_state.blink_count = 0
        /\ ~eye_state.eyes_closed
        /\ eye_state.closed_counter = 0
        /\ eye_state.open_counter = 0

\* C9: no label exists before the annotation pass; at DONE, for a source of N
\* frames, the labels are keyed by the decimal strings of 0..N-1, the label
\* of key i is that of the i-th frame of the source, and total_frames is N.
C9_OneLabelPerFrame ==
    /\ pc \in {"SETUP", "FAILED", "READY"} => DOMAIN labels_per_frame = {}
    /\ pc = "CLASSIFYING"
          => DOMAIN labels_per_frame = {Str(i) : i \in 0..(frame_no - 1)}
    /\ pc = "DONE" =>
          /\ DOMAIN result_json.labels_per_frame = {Str(i) : i \in 0..(Len(video) - 1)}
          /\ result_json.total_frames = Len(video)
          /\ \A i \in 0..(Len(video) - 1) :
                (labels_per_frame[Str(i)].posture = "No face")
                   <=> ~Frame(video[i + 1]).face

\* a finished session whose source went on after the frames setup consumed,
\* with a face missing in one of them
C9_Witness ==
    /\ pc = "DONE"
    /\ Len(video) > mon.setup_frames
    /\ Len(video) > CALIB_FRAMES_NEEDED
    /\ \E i \in 1..Len(video) : ~Frame(video[i]).face
    /\ Cardinality(DOMAIN labels_per_frame) = Len(video)

EyeLabels == {"Open", "Closed"}

PostureLabels == {"Straight", "Hunched", "No face", "Too close/far", "Face too small"}

-----------------------------------------------------------------------------
(* Claims about the phases of the session *)

\* the phase changes of one step of process_video_source
PhaseOrder ==
    {<<"SETUP", "SETUP">>, <<"SETUP", "READY">>, <<"SETUP", "FAILED">>,
     <<"READY", "CLASSIFYING">>, <<"CLASSIFYING", "CLASSIFYING">>,
     <<"CLASSIFYING", "DONE">>}

\* the statistics are final and every frame of the source has its label
Finalized ==
    /\ stats.total_frames = Len(video)
    /\ frame_no = Len(video)
    /\ stats.has_summary = (stats.posture_scores # << >>)
    /\ DOMAIN labels_per_frame = {Str(i) : i \in 0..(Len(video) - 1)}

\* the steps the session still has before it: the phases left, and within a
\* pass the frames of the source the pass has not read
StepsLeft ==
    CASE pc = "SETUP"       -> 3 * (MaxFrames + 1) + (MaxFrames - pos)
      [] pc = "READY"       -> 2 * (MaxFrames + 1) + MaxFrames
      [] pc = "CLASSIFYING" -> (MaxFrames + 1) + (MaxFrames - pos)
      [] OTHER              -> 0

\* ENABLED Next, disjunct by disjunct
HasNextStep ==
    \/ ENABLED LeaveSetup
    \/ ENABLED Rewind
    \/ ENABLED Finish
    \/ ENABLED ClassifyFrame
    \/ ENABLED SetupFrame

\* C11: every session over a finite source ends in DONE or in FAILED and stays
\* there: each step brings the end nearer (StepsLeft falls and is never
\* negative) and only DONE and FAILED have no next step; the phase only moves
\* along SETUP, READY, CLASSIFYING, DONE; FAILED is entered from SETUP only;
\* and the pass that has begun CLASSIFYING can only end in DONE, with final
\* statistics and a label for every frame.
C11_PhasesInOrderToTheEnd ==
    /\ [][(<<pc, pc'>> \in PhaseOrder)]_vars
    /\ [][StepsLeft' < StepsLeft]_vars
    /\ [](StepsLeft >= 0)
    /\ []((pc \in {"DONE", "FAILED"}) <=> ~HasNextStep)
    /\ [][pc' = "DONE" => Finalized']_vars

\* a session that classified frames beyond those of the setup pass is done
C11_Witness ==
    /\ pc = "DONE"
    /\ Finalized
    /\ Len(video) > mon.setup_frames
    /\ stats.has_summary

\* C18: in COMBINED mode after warm-up a sample enters ear_history only on a
\* step whose ratio is strictly above the open-threshold (0.75 of the median
\* of the history before the step), with eyes open or closed; a sample at or
\* below the open-threshold never enters it.
C18_OnlyOpenSamplesReadmitted ==
    [][(mode = "COMBINED" /\ mon'.det = mon.det + 1) =>
          LET fr  == Frame(mon'.kind)
              h   == eye_state.ear_history
              new == eye_state'.ear_history
          IN  IF fr.face /\ Above(fr.ear, Median2(h), OPEN_THRESH_RATIO)
              THEN new \in {h, DequeAppend(h, fr.ear, eye_state.history_frames)}
              ELSE new = h]_vars

\* after a blink whose reopening sample entered the history, a ratio between
\* the two thresholds arrives
C18_Witness ==
    /\ mode = "COMBINED"
    /\ eye_state.blink_count = 1
    /\ Len(eye_state.ear_history) > eye_state.min_history
    /\ mon.kind = "Band"

\* C19: in HYSTERESIS mode one frame under the close-threshold with eyes open
\* sets eyes_closed on that step; one frame above the open-threshold with eyes
\* closed clears eyes_closed, raises blink_count by 1, reports blink_increment
\* 1 and appends the sample to the history on that step; a ratio within the
\* band from the close- to the open-threshold changes neither eyes_closed nor
\* the history.
C19_HysteresisImmediate ==
    [][(mode = "HYSTERESIS" /\ mon'.det = mon.det + 1 /\ Frame(mon'.kind).face) =>
          LET ear   == Frame(mon'.kind).ear
              h     == eye_state.ear_history
              med2  == Median2(h)
              below == Below(ear, med2, CLOSE_THRESH_RATIO)
              above == Above(ear, med2, OPEN_THRESH_RATIO)
          IN  /\ (below /\ ~eye_state.eyes_closed) =>
                    /\ eye_state'.eyes_closed
                    /\ eye_state'.blink_count = eye_state.blink_count
                    /\ eye_info'.blink_increment = 0
                    /\ eye_state'.ear_history = h
              /\ (above /\ eye_state.eyes_closed) =>
                    /\ ~eye_state'.eyes_closed
                    /\ eye_state'.blink_count = eye_state.blink_count + 1
                    /\ eye_info'.blink_increment = 1
                    /\ eye_state'.ear_history =
                          DequeAppend(h, ear, eye_state.history_frames)
              /\ (~below /\ ~above) =>
                    /\ eye_state'.eyes_closed = eye_state.eyes_closed
                    /\ eye_state'.blink_count = eye_state.blink_count
                    /\ eye_info'.blink_increment = 0
                    /\ eye_state'.ear_history = h]_vars

\* after a one-frame blink the eyes have closed again and a ratio within the
\* band leaves them closed
C19_Witness ==
    /\ mode = "HYSTERESIS"
    /\ eye_state.blink_count = 1
    /\ eye_state.eyes_closed
    /\ mon.kind = "Band"
    /\ mon.det <= 4

\* C21: under every policy and after any steps, blink_count never falls; it
\* rises by exactly 1 on exactly the steps on which eyes_closed goes from true
\* to false, and blink_increment is 1 on exactly those steps and 0 on all
\* others.
C21_BlinkCountedOnReopening ==
    [][LET reopened == eye_state.eyes_closed /\ ~eye_state'.eyes_closed
       IN  /\ eye_state'.blink_count =
                 eye_state.blink_count + (IF reopened THEN 1 ELSE 0)
           /\ eye_info'.blink_increment = (IF reopened THEN 1 ELSE 0)
           /\ eye_info'.blink_count = eye_state'.blink_count]_vars

\* under the TIME policy the eyes have just reopened and the blink is reported
C21_Witness ==
    /\ mode = "TIME"
    /\ eye_state.blink_count = 1
    /\ eye_info.blink_increment = 1
    /\ ~eye_state.eyes_closed
    /\ mon.kind = "Upright"

-----------------------------------------------------------------------------
(* Claims about the posture score *)

DiagnosticStatuses == {"No face", "Too close/far", "Face too small"}

\* one step of the moving average from smooth towards raw, as lines 120, 138
\* and 150 write it
OneEmaStep(raw, smooth) ==
    (EMA_ALPHA * raw + (100 - EMA_ALPHA) * smooth + 50) \div 100

\* the raw values a score call on tracker st can feed the moving average
RawValues(st) ==
    {500000, 2000000}
        \cup {RawScore(ShiftedRatio(Frame(k), st)) :
                  k \in {x \in ScoreKinds : ScorePath(Frame(x), st) = "primary"}}

\* C12: a score call that reports a diagnostic status (no face, face height
\* out of range, face too small for a distance) leaves the whole tracker as it
\* was; a score call that reports Straight or Hunched moves smooth_score by
\* exactly one step of the moving average and leaves the other fields.
C12_DiagnosticLeavesScore ==
    [][mon'.scores = mon.scores + 1 =>
          IF posture_info'.status \in DiagnosticStatuses
          THEN posture_state' = posture_state
          ELSE /\ posture_info'.status \in {"Straight", "Hunched"}
               /\ \E raw \in RawValues(posture_state) :
                     posture_state' =
                        [posture_state EXCEPT
                            !.smooth_score = OneEmaStep(raw, posture_state.smooth_score)]]_vars

\* a calibrated tracker whose score has moved reports a face too small
C12_Witness ==
    /\ mon.op = "score"
    /\ mon.path = "diagnostic"
    /\ posture_info.status = "Face too small"
    /\ posture_state.calibrated
    /\ posture_state.smooth_score # init_posture_state.smooth_score

\* C24: in every reachable state of the posture tracker smooth_score lies in
\* [0, 2.5], the range of the clipped raw score: it starts at 1.25 and every
\* update is a step of the moving average towards a value of that range.
C24_SmoothScoreInRange ==
    /\ 0 <= posture_state.smooth_score
    /\ posture_state.smooth_score <= SCALE_FACTOR
    /\ mon.scores = 0 => posture_state.smooth_score = 1250000
    /\ \A k \in ScoreKinds :
          LET r == RawScore(ShiftedRatio(Frame(k), posture_state))
          IN  ScorePath(Frame(k), posture_state) = "primary" =>
                  (0 <= r /\ r <= SCALE_FACTOR)

\* two upright frames have raised the score of a calibrated tracker
C24_Witness ==
    /\ posture_state.calibrated
    /\ mon.scores = 2
    /\ posture_state.smooth_score > 1800000
    /\ posture_info.status = "Straight"

\* C13: on a frame scored from the distance right after a frame scored against
\* the references, the new smooth_score is 0.3 * s + 0.7 * previous for a fixed
\* score s of 0.5 or 2.0: it lies between the previous value and s and moves
\* by at most 0.3 * |s - previous| (to the rounding of a millionth).
C13_FallbackIsOneEmaStep ==
    [][(/\ mon.op = "score"
        /\ mon.path = "primary"
        /\ mon'.scores = mon.scores + 1
        /\ mon'.path = "fallback") =>
          LET prev == posture_state.smooth_score
              new  == posture_state'.smooth_score
              s    == posture_info'.score
              gap  == IF s >= prev THEN s - prev ELSE prev - s
              move == IF new >= prev THEN new - prev ELSE prev - new
          IN  /\ s \in {500000, 2000000}
              /\ new = OneEmaStep(s, prev)
              /\ Min2(prev, s) <= new /\ new <= Max2(prev, s)
              /\ 100 * move <= EMA_ALPHA * gap + 50]_vars

\* a score from the distance follows a score against the references and moves
\* smooth_score down
C13_Witness ==
    /\ mon.op = "score"
    /\ mon.scores = 2
    /\ mon.path = "fallback"
    /\ posture_state.calibrated
    /\ posture_info.status = "Hunched"
    /\ posture_info.score = 500000

-----------------------------------------------------------------------------
(* Claims about single steps of the eye tracker *)

\* C14: a step on a frame without facial keypoints, during warm-up or after
\* it and under every policy, leaves ear_history, blink_count, closed_counter,
\* open_counter, eyes_closed and warmed_up (the whole tracker) unchanged and
\* reports blink_increment 0 with the status "No face".
C14_NoFaceLeavesTracker ==
    [][mon'.kind = "NoFace" =>
          /\ eye_state' = eye_state
          /\ eye_info'.blink_increment = 0
          /\ eye_info'.status = "No face"
          /\ eye_info'.blink_count = eye_state.blink_count
          /\ eye_info'.eyes_closed = eye_state.eyes_closed]_vars

\* a frame without a face reaches a warmed-up tracker whose eyes are closed
\* and whose open streak has begun
C14_Witness ==
    /\ mon.kind = "NoFace"
    /\ eye_info.status = "No face"
    /\ eye_state.warmed_up
    /\ eye_state.eyes_closed
    /\ eye_state.open_counter > 0

-----------------------------------------------------------------------------
(* Claims about the evaluation and the annotate request *)

\* C15: compute_f1_scores raises for every pair of label mappings whose key
\* sets differ, whatever their sizes, and returns a result only when the key
\* sets are the same.
C15_MismatchAlwaysRaises ==
    pc = "evaluated" =>
        ((DOMAIN ground_truth # DOMAIN labels_per_frame) => response.raised # "")

\* C15, as the code has it: for a ground truth that is not empty
\* compute_f1_scores raises whenever the key sets differ and computes scores
\* only when they are the same; for an empty ground truth it returns the
\* undefined result (None, None) without comparing any key.
C15_NonEmptyMismatchRaises ==
    pc = "evaluated" =>
        /\ DOMAIN ground_truth = {} => response = Returned(NoScore, NoScore)
        /\ (/\ DOMAIN ground_truth # {}
            /\ DOMAIN ground_truth # DOMAIN labels_per_frame)
               => response.raised # ""
        /\ response.eye_f1 = Computed =>
               /\ response.raised = ""
               /\ DOMAIN ground_truth # {}
               /\ DOMAIN ground_truth = DOMAIN labels_per_frame

\* two mappings of the same size, one key of the ground truth missing
C15_Witness ==
    /\ pc = "evaluated"
    /\ DOMAIN ground_truth # {}
    /\ Cardinality(DOMAIN ground_truth) = Cardinality(DOMAIN labels_per_frame)
    /\ DOMAIN ground_truth # DOMAIN labels_per_frame
    /\ response.raised = "ValueError: Missing generated labels"

\* C16: when ground truth comes with the request and its frame set is not
\* that of the generated labels, the request answers with an error; it never
\* answers successfully without the agreement scores.
C16_MismatchReported ==
    (/\ pc = "responded"
     /\ error = ""
     /\ ground_truth.supplied
     /\ ground_truth.has_labels
     /\ DOMAIN ground_truth.labels_per_frame # DOMAIN labels_per_frame)
        => response.status # 200

-----------------------------------------------------------------------------
(* Claims about whole sessions *)

\* the session over all SteadyFrames frames of the steady footage is done
SteadySessionDone ==
    /\ pc = "DONE"
    /\ mon.footage = "steady"
    /\ Len(video) = SteadyFrames

\* no blink is counted and every frame is labelled Straight
SteadyOutcome ==
    /\ stats.blink_count = 0
    /\ eye_state.blink_count = 0
    /\ DOMAIN labels_per_frame = {Str(i) : i \in 0..(SteadyFrames - 1)}
    /\ \A k \in DOMAIN labels_per_frame : labels_per_frame[k].posture = "Straight"

\* C17 as stated: a 90-frame session at 30 fps, all frames with open eyes and
\* upright posture, uses its first 20 frames for warm-up and calibration,
\* reaches CLASSIFYING and ends with blink count 0 and every posture status
\* Straight.
C17_TwentyFrameSetup ==
    /\ SteadySessionDone => (mon.setup_frames = 20 /\ SteadyOutcome)
    /\ (mon.footage = "steady" /\ pc = "FAILED") => Len(video) < 20

\* C17 amended: such a session uses its first 60 frames (the calibration
\* target) for warm-up and calibration, fails only on a source shorter than
\* that, reaches CLASSIFYING and ends with blink count 0 and every posture
\* status Straight.
C17_SteadySession ==
    /\ SteadySessionDone => (mon.setup_frames = CALIB_FRAMES_NEEDED /\ SteadyOutcome)
    /\ (mon.footage = "steady" /\ pc = "FAILED") => Len(video) < CALIB_FRAMES_NEEDED
    /\ (mon.footage = "steady" /\ pc = "CLASSIFYING") =>
            mon.setup_frames = CALIB_FRAMES_NEEDED

C17_Witness == SteadySessionDone /\ stats.total_frames = SteadyFrames
\* C20: the series of posture scores gets one entry per classified frame, in
\* frame order, the frame's smooth_score (for a frame with a diagnostic status
\* the unchanged previous one); at DONE it has one entry per frame, and the
\* average, least and greatest score are computed exactly when the series is
\* not empty and then satisfy least <= average <= greatest.
C20_ScoreSeriesAndSummary ==
    /\ [][frame_no' = frame_no + 1 =>
            /\ stats'.posture_scores =
                  Append(stats.posture_scores, Round3(posture_state'.smooth_score))
            /\ (posture_info'.status \in DiagnosticStatuses =>
                    posture_state'.smooth_score = posture_state.smooth_score)]_vars
    /\ [](Len(stats.posture_scores) = frame_no)
    /\ [](pc = "DONE" =>
            /\ Len(stats.posture_scores) = Len(video)
            /\ stats.has_summary = (stats.posture_scores # << >>)
            /\ stats.has_summary =>
                  /\ stats.min_posture_score <= stats.avg_posture_score
                  /\ stats.avg_posture_score <= stats.max_posture_score
                  /\ \A i \in 1..Len(stats.posture_scores) :
                        /\ stats.min_posture_score <= stats.posture_scores[i]
                        /\ stats.posture_scores[i] <= stats.max_posture_score)

\* a finished session with a frame without a face and scores that differ
C20_Witness ==
    /\ pc = "DONE"
    /\ stats.has_summary
    /\ stats.min_posture_score < stats.avg_posture_score
    /\ stats.avg_posture_score < stats.max_posture_score
    /\ \E k \in DOMAIN labels_per_frame : labels_per_frame[k].posture = "No face"
    /\ \E k \in DOMAIN labels_per_frame : labels_per_frame[k].posture = "Hunched"
\* C22: at DONE the blink_count of the statistics is the number of frames of
\* the classification pass that reported blink_increment 1: a blink of the
\* footage is counted once, although the setup pass and the classification
\* pass run the same eye tracker over the same leading frames.
C22_BlinksCountedOnce ==
    pc = "DONE" => stats.blink_count = mon.incs
\* a frame has been scored by the classification pass; posture_info and
\* posture_state are those after the call
FrameScored ==
    /\ pc \in {"CLASSIFYING", "DONE"}
    /\ frame_no > 0
    /\ posture_info.status \in {"Straight", "Hunched"}

\* the frame of the last score call and the branch it took
LastScored == Frame(video[frame_no])

LastPath == ScorePath(LastScored, posture_state)

\* C23 as stated: whenever a score call reports Straight or Hunched, against
\* the references or from the distance, the status agrees with the updated
\* smooth_score: Straight if and only if smooth_score >= 1.30.
C23_StatusAgreesWithScore ==
    FrameScored =>
        (posture_info.status = "Straight"
            <=> posture_state.smooth_score >= StraightMin)

\* C23 amended: a score against the references reports Straight if and only
\* if the updated smooth_score is at least 1.30; a score from the distance
\* reports Straight if and only if the estimated distance is at least
\* DIST_MILD_MAX (50 cm), whatever the updated smooth_score.
C23_StatusByBranch ==
    FrameScored =>
        /\ LastPath \in {"primary", "fallback"}
        /\ LastPath = "primary" =>
              (posture_info.status = "Straight"
                  <=> posture_state.smooth_score >= StraightMin)
        /\ LastPath = "fallback" =>
              (posture_info.status = "Straight"
                  <=> estimate_distance(LastScored) >= DIST_MILD_MAX * 1000)

\* a frame scored from the distance is reported Hunched while the updated
\* smooth_score is above 1.30
C23_Witness ==
    /\ FrameScored
    /\ LastPath = "fallback"
    /\ posture_info.status = "Hunched"
    /\ posture_state.smooth_score >= StraightMin

====
